---------------------------- MODULE Spec2Model ----------------------------
(***************************************************************************)
(* State-machine model of the safety filter node                           *)
(* (src/ros/src/crazyflie_refinecbf/safety_filter.py) with the             *)
(* configuration it reads (src/ros/src/crazyflie_refinecbf/config.py).     *)
(*                                                                         *)
(* Threads: the timer running timer_callback, the receiver threads of the  *)
(* three subscriptions (rospy.Subscriber), and main.  A callback is a      *)
(* sequence of steps, one per statement that reads or writes shared state, *)
(* and the steps of different threads interleave freely.                   *)
(*                                                                         *)
(* Abstractions: the 3-D lattice is a 1-D lattice of GridLen nodes; a      *)
(* state is a position in half grid spacings; reals are integers; a        *)
(* safety value is twice the interpolated value (so it stays an integer).  *)
(* Arrays live in `heap` and are referred to by index, so that replacing   *)
(* a reference and writing into an array are different things.             *)
(***************************************************************************)
EXTENDS Integers, Sequences, FiniteSets, TLC

\* ------------------------------------------------------------------ bounds
GridLen == 2
MaxCycles == 2
MaxInstalls == 2

\* ----------------------------------------------------------- configuration
U_MIN == <<0, 0>>
U_MAX == <<1, 1>>
INITIAL_STATE == 1

\* An attribute or local that may be unset holds None or Some(value).
None == <<>>
Some(x) == <<x>>
\* diffdrive_asif returned an array whose entry is None (no solution)
NoneArray == <<None>>
TabularCbfObject == "tabular_cbf"

\* The controls the corrector may return: the corners of the control box.
ControlSet == {U_MIN, U_MAX}
\* The commands the nominal policy node sends.
TwistMsgs == {[linear_x |-> U_MAX[1], angular_z |-> U_MIN[2]],
              [linear_x |-> U_MIN[1], angular_z |-> U_MAX[2]]}
\* Positions in the first cell of the lattice, in half grid spacings: on its
\* lower node, and half-way to the next node.
StateSet == {0, 1}

\* The k-th table the node gets from ./log/cbf.npy, with n nodes; every node
\* carries the number of the table it belongs to.
TableFile(k, n) == [shape |-> n, cells |-> [i \in 1..n |-> k * (GridLen + 2) + i]]
VersionOf(cell) == (cell - 1) \div (GridLen + 2)
INITIAL_CBF == TableFile(0, GridLen)
PRECOMPUTED_CBF == TableFile(0, GridLen)
FileShapes == {GridLen, GridLen + 1}

VARIABLES
    USE_REFINECBF,  \* config.USE_REFINECBF, fixed at start-up
    heap,           \* the arrays that are referred to, by reference
    vf_table,       \* self.tabular_cbf.vf_table: a reference into heap
    asif_cbf,       \* self.diffdrive_asif.cbf: the certificate object it holds
    cbf,            \* self.cbf: the array last loaded from file
    state,          \* self.state
    nominal_policy, \* self.nominal_policy
    safety_value,   \* self.safety_value
    tpc,            \* timer_callback: position
    lk,             \* the table lookup in progress: [ref, seen]
    loc,            \* timer_callback: locals [nominal_policy, control_input]
    cyc,            \* what the running cycle has read, published and logged
    log,            \* the telemetry log: records appended, records saved
    cycles,         \* cycles started
    cpc,            \* cbf_sub_callback: position
    cbfmsg,         \* cbf_sub_callback: msg.data of the running callback
    hist,           \* last deliveries, number of completed installs, and
                    \* whether the last load of a table raised
    mpc,            \* main: position
    exitLog         \* what happened since spin ended, in order

vars == <<USE_REFINECBF, heap, vf_table, asif_cbf, cbf, state, nominal_policy,
          safety_value, tpc, lk, loc, cyc, log, cycles, cpc, cbfmsg, hist,
          mpc, exitLog>>

certVars == <<heap, vf_table, asif_cbf, cbf>>
timerVars == <<safety_value, tpc, lk, loc, cyc, log, cycles>>
mainVars == <<mpc, exitLog>>
callbackVars == <<cpc, cbfmsg>>

\* ------------------------------------------------------- pure computations
\* hj.Grid.interpolate on the 1-D lattice: the two corner nodes of the cell
\* holding position pos, and the (doubled) linear interpolation between them.
Corner(pos, j) == (pos \div 2) + j

Interpolate(seen, pos) == (2 - (pos % 2)) * seen[1] + (pos % 2) * seen[2]

\* line 118: control_input[0].any() is None
IsNoneResult(control_input) == control_input = NoneArray

\* (mutant) the nominal control is kept when the QP has no solution
FallbackKeepsNominal == nominal_policy

\* line 126: the control substituted when the QP has no solution
FallbackControl == <<U_MIN[1], 0>>

\* create_shutdown_message(): the stop command main publishes
ShutdownMessage == <<0, 0>>

\* (mutant) the two components are stored in the wrong order
NominalFromMsgSwapped(msg) == <<msg.angular_z, msg.linear_x>>

\* line 171: np.array([msg.linear.x, msg.angular.z])
NominalFromMsg(msg) == <<msg.linear_x, msg.angular_z>>

\* (mutant) the flag of the notification is not looked at
ShouldInstallAnyFlag(use, data) == use

\* lines 156-157: the guard of the install
ShouldInstall(use, data) == use /\ data

\* A reference no array of h has.
FreshRef(h) == (CHOOSE r \in DOMAIN h : \A q \in DOMAIN h : q <= r) + 1

\* (mutant) the new values are written into the array the node holds
InstallInPlace(h, ref, arr) == [heap |-> [h EXCEPT ![ref] = arr], vf_table |-> ref]

\* (mutant) the loaded array is kept in self.cbf and never installed
InstallSkipped(h, ref, arr) == [heap |-> h, vf_table |-> ref]

\* line 160: np.array allocates a fresh array and the reference is replaced
InstallTable(h, ref, arr) ==
    [heap |-> h @@ (FreshRef(h) :> arr), vf_table |-> FreshRef(h)]

\* An array nothing refers to any more is freed.
Collect(h, live) == [r \in DOMAIN h \cap live |-> h[r]]

\* the array a certificate object refers to (obj.vf_table)
TableRef(obj) == CASE obj = TabularCbfObject -> vf_table

\* ------------------------------------------------------------------- Init
NoCycle ==
    [sv_state |-> INITIAL_STATE, sv_cells |-> <<>>, sv_published |-> None,
     qp_state |-> INITIAL_STATE, qp_cells |-> <<>>, qp_nom |-> None,
     outcome |-> None, failure |-> None, cmd |-> None, record |-> None,
     events |-> <<>>]

NoLookup == [ref |-> 0, seen |-> <<>>]

Init ==
    /\ USE_REFINECBF \in BOOLEAN
    /\ heap = (1 :> (IF USE_REFINECBF THEN INITIAL_CBF ELSE PRECOMPUTED_CBF))
    /\ vf_table = 1
    /\ asif_cbf = TabularCbfObject
    /\ cbf = IF USE_REFINECBF THEN None ELSE Some(PRECOMPUTED_CBF)
    /\ state = INITIAL_STATE
    /\ nominal_policy = <<U_MIN[1], 0>>
    /\ safety_value = None
    /\ tpc = "idle"
    /\ lk = NoLookup
    /\ loc = [nominal_policy |-> None, control_input |-> None]
    /\ cyc = NoCycle
    /\ log = [records |-> 0, saved |-> None]
    /\ cycles = 0
    /\ cpc = "idle"
    /\ cbfmsg = None
    /\ hist = [state |-> None, nom |-> None, version |-> 0, raised |-> FALSE]
    /\ mpc = "spin"
    /\ exitLog = <<>>

\* The node's callbacks start only while main is in rospy.spin(); one that
\* is already running goes on until the node is destroyed.
Spinning == mpc = "spin"
NodeAlive == mpc # "done"

\* A publish by a cycle, noted when it comes after spin has ended.
AfterSpin(tag) == IF Spinning THEN exitLog ELSE Append(exitLog, tag)

\* --------------------------------------------------------- timer_callback
\* A lookup's first step: the reference of the table is read once, and the
\* first corner node is read from that array.
StartLookup(ref, pos) ==
    [ref |-> ref, seen |-> <<heap[ref].cells[Corner(pos, 1)]>>]

\* A lookup's second step: the other corner node is read from the array the
\* lookup holds.
FinishLookup(pos) ==
    Append(lk.seen, heap[lk.ref].cells[Corner(pos, 2)])

\* The arrays a running lookup refers to.
LookupRefs == IF tpc \in {"safety_value", "solve"} THEN {lk.ref} ELSE {}

\* lines 101-106, 95: the timer fires; publish_safety_value evaluates the
\* arguments of interpolate (the table reference, the state) and the
\* interpolation starts.
TimerFire ==
    /\ Spinning
    /\ tpc = "idle"
    /\ cycles < MaxCycles
    /\ cycles' = cycles + 1
    /\ lk' = StartLookup(vf_table, state)
    /\ cyc' = [NoCycle EXCEPT !.sv_state = state]
    /\ loc' = [nominal_policy |-> None, control_input |-> None]
    /\ tpc' = "safety_value"
    /\ UNCHANGED <<USE_REFINECBF, certVars, state, nominal_policy,
                   safety_value, log, callbackVars, hist, mainVars>>

\* (mutant) the value is computed and stored, and the publish is left out
PublishSafetyValueUnpublished ==
    /\ NodeAlive
    /\ tpc = "safety_value"
    /\ LET seen == FinishLookup(cyc.sv_state)
       IN  /\ safety_value' = Some(Interpolate(seen, cyc.sv_state))
           /\ cyc' = [cyc EXCEPT !.sv_cells = seen]
    /\ lk' = NoLookup
    /\ heap' = Collect(heap, {vf_table})
    /\ tpc' = "corrector"
    /\ UNCHANGED <<USE_REFINECBF, vf_table, asif_cbf, cbf, state,
                   nominal_policy, loc, log, cycles, callbackVars, hist,
                   mainVars>>

\* lines 95-99: the interpolation ends; the value is stored and published.
PublishSafetyValue ==
    /\ NodeAlive
    /\ tpc = "safety_value"
    /\ LET seen == FinishLookup(cyc.sv_state)
       IN  /\ safety_value' = Some(Interpolate(seen, cyc.sv_state))
           /\ cyc' = [cyc EXCEPT !.sv_cells = seen,
                                 !.sv_published = safety_value',
                                 !.events = Append(@, "safety_value")]
    /\ lk' = NoLookup
    /\ heap' = Collect(heap, {vf_table})
    /\ exitLog' = AfterSpin("safety_value")
    /\ tpc' = "corrector"
    /\ UNCHANGED <<USE_REFINECBF, vf_table, asif_cbf, cbf, state,
                   nominal_policy, loc, log, cycles, callbackVars, hist, mpc>>

\* lines 111-112: the nominal policy is read into a local and diffdrive_asif
\* is called with it and the state; the corrector starts to read the table
\* of the certificate it holds.
CorrectorCall ==
    /\ NodeAlive
    /\ tpc = "corrector"
    /\ loc' = [loc EXCEPT !.nominal_policy = nominal_policy]
    /\ lk' = StartLookup(TableRef(asif_cbf), state)
    /\ cyc' = [cyc EXCEPT !.qp_state = state,
                          !.qp_nom = loc'.nominal_policy,
                          !.events = Append(@, "corrector")]
    /\ tpc' = "solve"
    /\ UNCHANGED <<USE_REFINECBF, certVars, state, nominal_policy,
                   safety_value, log, cycles, callbackVars, hist, mainVars>>

\* line 112: the corrector finishes its lookup and the QP is solved: a
\* control within the bounds, or an array of None when the QP has no
\* solution.
CorrectorReturn ==
    /\ NodeAlive
    /\ tpc = "solve"
    /\ \E r \in ControlSet \cup {NoneArray} :
          /\ loc' = [loc EXCEPT !.control_input = r]
          /\ cyc' = [cyc EXCEPT !.qp_cells = FinishLookup(cyc.qp_state),
                                !.outcome = r]
    /\ lk' = NoLookup
    /\ heap' = Collect(heap, {vf_table})
    /\ tpc' = "check"
    /\ UNCHANGED <<USE_REFINECBF, vf_table, asif_cbf, cbf, state,
                   nominal_policy, safety_value, log, cycles, callbackVars,
                   hist, mainVars>>

\* line 112: the corrector raises; nothing in timer_callback catches it, so
\* the cycle ends here and the timer runs no further cycle.
CorrectorRaise ==
    /\ NodeAlive
    /\ tpc = "solve"
    /\ cyc' = [cyc EXCEPT !.events = Append(@, "raise")]
    /\ lk' = NoLookup
    /\ heap' = Collect(heap, {vf_table})
    /\ tpc' = "crashed"
    /\ UNCHANGED <<USE_REFINECBF, vf_table, asif_cbf, cbf, state,
                   nominal_policy, safety_value, loc, log, cycles,
                   callbackVars, hist, mainVars>>

\* lines 118-126: on a None result the failure is logged and the control is
\* overwritten.
Checked(control_input) ==
    IF IsNoneResult(control_input) THEN FallbackControl ELSE control_input

\* lines 118-138: the result is checked and the control is published.
PublishControl ==
    /\ NodeAlive
    /\ tpc = "check"
    /\ loc' = [loc EXCEPT !.control_input = Checked(@)]
    /\ IF IsNoneResult(loc.control_input)
          THEN cyc' = [cyc EXCEPT
                     !.failure = Some([state |-> state,
                                       safety_value |-> safety_value,
                                       nominal_policy |-> nominal_policy]),
                     !.cmd = Some(<<loc'.control_input[1],
                                    loc'.control_input[2]>>),
                     !.events = @ \o <<"failure", "control">>]
          ELSE cyc' = [cyc EXCEPT
                     !.cmd = Some(<<loc'.control_input[1],
                                    loc'.control_input[2]>>),
                     !.events = Append(@, "control")]
    /\ exitLog' = AfterSpin("control")
    /\ tpc' = "append"
    /\ UNCHANGED <<USE_REFINECBF, certVars, state, nominal_policy,
                   safety_value, lk, log, cycles, callbackVars, hist, mpc>>

\* (mutant) the nominal control is logged in the fields of the filtered one
AppendTelemetryLogsNominal ==
    /\ NodeAlive
    /\ tpc = "append"
    /\ log' = [log EXCEPT !.records = @ + 1]
    /\ cyc' = [cyc EXCEPT
                  !.record = Some([state |-> state,
                                   safety_value |-> safety_value,
                                   v |-> nominal_policy[1],
                                   omega |-> nominal_policy[2],
                                   v_nom |-> nominal_policy[1],
                                   omega_nom |-> nominal_policy[2]]),
                  !.events = Append(@, "telemetry")]
    /\ tpc' = "idle"
    /\ UNCHANGED <<USE_REFINECBF, certVars, state, nominal_policy,
                   safety_value, lk, loc, cycles, callbackVars, hist,
                   mainVars>>

\* lines 143-152: the telemetry record is appended.
AppendTelemetry ==
    /\ NodeAlive
    /\ tpc = "append"
    /\ log' = [log EXCEPT !.records = @ + 1]
    /\ cyc' = [cyc EXCEPT
                  !.record = Some([state |-> state,
                                   safety_value |-> safety_value,
                                   v |-> loc.control_input[1],
                                   omega |-> loc.control_input[2],
                                   v_nom |-> nominal_policy[1],
                                   omega_nom |-> nominal_policy[2]]),
                  !.events = Append(@, "telemetry")]
    /\ tpc' = "idle"
    /\ UNCHANGED <<USE_REFINECBF, certVars, state, nominal_policy,
                   safety_value, lk, loc, cycles, callbackVars, hist,
                   mainVars>>

TimerCallback ==
    \/ TimerFire
    \/ PublishSafetyValue
    \/ CorrectorCall
    \/ CorrectorReturn
    \/ CorrectorRaise
    \/ PublishControl
    \/ AppendTelemetry

\* ------------------------------------------------------- cbf_sub_callback
\* lines 155-159, 162-164: a notification arrives; when refinement is
\* enabled and the flag is true, jnp.load reads whatever table the file
\* holds into self.cbf.
CbfNotification ==
    /\ Spinning
    /\ cpc = "idle"
    /\ \E data \in BOOLEAN :
          IF ShouldInstall(USE_REFINECBF, data)
             THEN /\ hist.version < MaxInstalls
                  /\ \E n \in FileShapes :
                        cbf' = Some(TableFile(hist.version + 1, n))
                  /\ cbfmsg' = Some(data)
                  /\ hist' = [hist EXCEPT !.raised = FALSE]
                  /\ cpc' = "assign"
             ELSE UNCHANGED <<cbf, cpc, cbfmsg, hist>>
    /\ UNCHANGED <<USE_REFINECBF, heap, vf_table, asif_cbf, state,
                   nominal_policy, timerVars, mainVars>>

\* (mutant) a failed load puts the initial certificate table back
CbfLoadRaiseRestoresInitial ==
    /\ Spinning
    /\ cpc = "idle"
    /\ ShouldInstall(USE_REFINECBF, TRUE)
    /\ LET new == InstallTable(heap, vf_table, INITIAL_CBF)
       IN  /\ heap' = Collect(new.heap, {new.vf_table} \cup LookupRefs)
           /\ vf_table' = new.vf_table
    /\ hist' = [hist EXCEPT !.raised = TRUE]
    /\ UNCHANGED <<USE_REFINECBF, asif_cbf, cbf, state, nominal_policy,
                   timerVars, callbackVars, mainVars>>

\* line 159: jnp.load raises (no file, unreadable file) before self.cbf is
\* assigned; the exception leaves the callback (the receiver thread of the
\* subscription reports it) and lines 160-161 do not run.
CbfLoadRaise ==
    /\ Spinning
    /\ cpc = "idle"
    /\ ShouldInstall(USE_REFINECBF, TRUE)
    /\ hist' = [hist EXCEPT !.raised = TRUE]
    /\ UNCHANGED <<USE_REFINECBF, certVars, state, nominal_policy,
                   timerVars, callbackVars, mainVars>>

\* line 160: self.tabular_cbf.vf_table = np.array(self.cbf)
CbfAssign ==
    /\ NodeAlive
    /\ cpc = "assign"
    /\ LET new == InstallTable(heap, vf_table, cbf[1])
       IN  /\ heap' = Collect(new.heap, {new.vf_table} \cup LookupRefs)
           /\ vf_table' = new.vf_table
    /\ cpc' = "link"
    /\ UNCHANGED <<USE_REFINECBF, asif_cbf, cbf, state, nominal_policy,
                   timerVars, cbfmsg, hist, mainVars>>

\* (mutant) the corrector is given a certificate object of its own, made
\* from the loaded array
CbfLinkOwnCertificate ==
    /\ NodeAlive
    /\ cpc = "link"
    /\ asif_cbf' = "tabular_cbf_of_corrector"
    /\ hist' = [hist EXCEPT !.version = VersionOf(cbf[1].cells[1])]
    /\ cpc' = "idle"
    /\ cbfmsg' = None
    /\ UNCHANGED <<USE_REFINECBF, heap, vf_table, cbf, state, nominal_policy,
                   timerVars, mainVars>>

\* line 161: self.diffdrive_asif.cbf = self.tabular_cbf
CbfLink ==
    /\ NodeAlive
    /\ cpc = "link"
    /\ asif_cbf' = TabularCbfObject
    /\ hist' = [hist EXCEPT !.version = VersionOf(cbf[1].cells[1])]
    /\ cpc' = "idle"
    /\ cbfmsg' = None
    /\ UNCHANGED <<USE_REFINECBF, heap, vf_table, cbf, state, nominal_policy,
                   timerVars, mainVars>>

CbfSubCallback ==
    \/ CbfNotification
    \/ CbfLoadRaise
    \/ CbfAssign
    \/ CbfLink

\* ------------------------------------------------ nom_policy_sub_callback
\* lines 167-173
NomPolicySubCallback ==
    /\ Spinning
    /\ \E msg \in TwistMsgs :
          /\ nominal_policy' = NominalFromMsg(msg)
          /\ hist' = [hist EXCEPT !.nom = Some(msg)]
    /\ UNCHANGED <<USE_REFINECBF, certVars, state, timerVars, callbackVars,
                   mainVars>>

\* ---------------------------------------------------------- state feedback
\* lines 74-78: the state subscriptions are created without a callback, so a
\* delivered state is not stored.
StateFeedback ==
    /\ Spinning
    /\ \E s \in StateSet : hist' = [hist EXCEPT !.state = Some(s)]
    /\ UNCHANGED <<USE_REFINECBF, certVars, state, nominal_policy, timerVars,
                   callbackVars, mainVars>>

\* --------------------------------------------------------------------- main
\* line 181: spin returns (the node was shut down from outside).
SpinReturn ==
    /\ mpc = "spin"
    /\ mpc' = "finally"
    /\ exitLog' = <<"return">>
    /\ UNCHANGED <<USE_REFINECBF, certVars, state, nominal_policy, timerVars,
                   callbackVars, hist>>

\* lines 181-184: KeyboardInterrupt is raised in spin.
SpinKeyboardInterrupt ==
    /\ mpc = "spin"
    /\ mpc' = "except"
    /\ exitLog' = <<"KeyboardInterrupt">>
    /\ UNCHANGED <<USE_REFINECBF, certVars, state, nominal_policy, timerVars,
                   callbackVars, hist>>

\* line 181: another exception comes out of spin.
SpinException ==
    /\ mpc = "spin"
    /\ mpc' = "finally"
    /\ exitLog' = <<"exception">>
    /\ UNCHANGED <<USE_REFINECBF, certVars, state, nominal_policy, timerVars,
                   callbackVars, hist>>

\* lines 186-188: the except block publishes the shutdown message.
ExceptPublish ==
    /\ mpc = "except"
    /\ exitLog' = Append(exitLog, "stop")
    /\ mpc' = "save"
    /\ UNCHANGED <<USE_REFINECBF, certVars, state, nominal_policy, timerVars,
                   callbackVars, hist>>

\* lines 190-191: the except block saves the telemetry.
ExceptSave ==
    /\ mpc = "save"
    /\ log' = [log EXCEPT !.saved = Some(log.records)]
    /\ exitLog' = Append(exitLog, "save")
    /\ mpc' = "finally"
    /\ UNCHANGED <<USE_REFINECBF, certVars, state, nominal_policy,
                   safety_value, tpc, lk, loc, cyc, cycles, callbackVars,
                   hist>>

\* (mutant) the finally block goes straight to destroy_node
FinallyPublishSkipped ==
    /\ mpc = "finally"
    /\ mpc' = "destroy"
    /\ UNCHANGED <<USE_REFINECBF, certVars, state, nominal_policy, timerVars,
                   callbackVars, hist, exitLog>>

\* line 191: config.py does not define DATA_FILENAME (its line 30 is
\* commented out); unless the star import of refine_cbf.utils brings the
\* name, looking it up raises and the finally block runs next.
ExceptSaveRaise ==
    /\ mpc = "save"
    /\ exitLog' = Append(exitLog, "save_raise")
    /\ mpc' = "finally"
    /\ UNCHANGED <<USE_REFINECBF, certVars, state, nominal_policy, timerVars,
                   callbackVars, hist>>

\* lines 193-196: the finally block publishes the shutdown message.
FinallyPublish ==
    /\ mpc = "finally"
    /\ exitLog' = Append(exitLog, "stop")
    /\ mpc' = "destroy"
    /\ UNCHANGED <<USE_REFINECBF, certVars, state, nominal_policy, timerVars,
                   callbackVars, hist>>

\* line 201: destroy_node
FinallyDestroy ==
    /\ mpc = "destroy"
    /\ exitLog' = Append(exitLog, "destroy")
    /\ mpc' = "done"
    /\ UNCHANGED <<USE_REFINECBF, certVars, state, nominal_policy, timerVars,
                   callbackVars, hist>>

Main ==
    \/ SpinReturn
    \/ SpinKeyboardInterrupt
    \/ SpinException
    \/ ExceptPublish
    \/ ExceptSave
    \/ ExceptSaveRaise
    \/ FinallyPublish
    \/ FinallyDestroy

Next ==
    \/ TimerCallback
    \/ CbfSubCallback
    \/ NomPolicySubCallback
    \/ StateFeedback
    \/ Main

Spec == Init /\ [][Next]_vars

\* ================================================================== claims
\* Zero linear and zero angular velocity.
ZeroControl == <<0, 0>>

\* The positions of a tag in the exit log.
Positions(tag) == {i \in DOMAIN exitLog : exitLog[i] = tag}

\* C1: in a cycle whose corrector call returned no control (an array of
\* None), the control the cycle publishes is the zero control, and the cycle
\* does not raise.
C1_InfeasiblePublishesSafeStop ==
    cyc.outcome = NoneArray =>
        /\ tpc # "crashed"
        /\ tpc \in {"append", "idle"} => cyc.cmd = Some(ZeroControl)

\* C1 witness: a cycle ran to its end after the corrector returned no
\* control while a non-zero nominal control was held.
C1_Witness ==
    /\ tpc = "idle"
    /\ cyc.outcome = NoneArray
    /\ cyc.qp_nom # ZeroControl
    /\ cyc.cmd = Some(ZeroControl)
    /\ cyc.record # None

\* C2: after a KeyboardInterrupt main publishes the stop command exactly
\* once, and nothing is published after it.
C2_ExactlyOneFinalStop ==
    (mpc = "done" /\ exitLog[1] = "KeyboardInterrupt") =>
        /\ Cardinality(Positions("stop")) = 1
        /\ \A i \in Positions("stop") : \A j \in DOMAIN exitLog :
              j > i => exitLog[j] \notin {"stop", "control", "safety_value"}

\* C3: on every way out of spin, destroy_node comes after a publish of the
\* stop command.
C3_StopBeforeDestroy ==
    /\ \A i \in Positions("destroy") : \E j \in Positions("stop") : j < i
    /\ mpc = "done" => Positions("destroy") # {}

\* C3 witness: main ended after an exception other than KeyboardInterrupt
\* came out of spin.
C3_Witness ==
    /\ mpc = "done"
    /\ exitLog[1] = "exception"
    /\ Positions("stop") # {}

\* The state a cycle is to use after the deliveries so far.
LatestState(delivered) ==
    IF delivered = None THEN INITIAL_STATE ELSE delivered[1]

\* C4: the state a cycle uses is the state delivered last before the cycle
\* started, and INITIAL_STATE only when none has been delivered.
C4_CycleUsesLatestState ==
    [][(tpc = "idle" /\ tpc' = "safety_value")
          => cyc'.sv_state = LatestState(hist.state)]_vars

\* C5: the table the node holds has the shape of the grid in every state (a
\* loaded table of another shape is not installed).
C5_HeldTableHasGridShape == heap[vf_table].shape = GridLen

\* The corner nodes a lookup at position pos reads from the k-th table.
CornersOf(k, pos) == [j \in 1..2 |-> TableFile(k, GridLen).cells[Corner(pos, j)]]

\* The nodes read are the corner nodes of one table: of the table the first
\* of them belongs to.
FromOneTable(seen, pos) ==
    \A j \in DOMAIN seen :
        seen[j] = VersionOf(seen[1]) * (GridLen + 2) + Corner(pos, j)

\* C6: a lookup that runs while a table is installed reads all its nodes
\* from one table, the old one or the new one, and an install never writes
\* into an array that exists: it replaces the reference.
C6_LookupSeesOneTable ==
    [][/\ \A r \in DOMAIN heap \cap DOMAIN heap' : heap'[r] = heap[r]
       /\ FromOneTable(cyc'.sv_cells, cyc'.sv_state)
       /\ FromOneTable(cyc'.qp_cells, cyc'.qp_state)]_vars

\* C6 witness: a new table was installed while a safety-value lookup runs;
\* the lookup has read a node of the old table and still holds that table,
\* whole.
C6_Witness ==
    /\ tpc = "safety_value"
    /\ lk.ref # vf_table
    /\ lk.seen = <<CornersOf(0, cyc.sv_state)[1]>>
    /\ heap[lk.ref] = TableFile(0, GridLen)
    /\ VersionOf(heap[vf_table].cells[1]) = 1

\* The number of the table a lookup has started to read.
LookupVersion == VersionOf(lk.seen[1])

\* C7: a lookup of a cycle (for the safety value, for the corrector) that
\* starts after an install has completed reads the installed table, or one
\* installed later, and reads all its nodes from it.
C7_CycleUsesInstalledTable ==
    [][/\ (tpc = "idle" /\ tpc' = "safety_value")
             => /\ LookupVersion' >= hist.version
                /\ lk'.ref = vf_table
       /\ (tpc = "corrector" /\ tpc' = "solve")
             => /\ LookupVersion' >= hist.version
                /\ lk'.ref = vf_table
       /\ (tpc = "safety_value" /\ tpc' = "corrector")
             => cyc'.sv_cells = CornersOf(LookupVersion, cyc.sv_state)
       /\ (tpc = "solve" /\ tpc' = "check")
             => cyc'.qp_cells = CornersOf(LookupVersion, cyc.qp_state)]_vars

\* C7 witness: a cycle that started after an install completed has read its
\* safety value from the installed table and its corrector reads it too.
C7_Witness ==
    /\ tpc = "solve"
    /\ cpc = "idle"
    /\ hist.version = 1
    /\ cyc.sv_cells = CornersOf(1, cyc.sv_state)
    /\ LookupVersion = 1

\* C8: the table the node holds changes only in the assignment of
\* cbf_sub_callback, run for a notification whose flag is true while
\* refinement is enabled.
C8_TableChangesOnlyOnTrueFlag ==
    [][(vf_table' # vf_table \/ heap'[vf_table'] # heap[vf_table])
          => /\ USE_REFINECBF
             /\ cbfmsg = Some(TRUE)
             /\ cpc = "assign" /\ cpc' = "link"]_vars

\* C8 witness: a table was installed, and a cycle has run since.
C8_Witness ==
    /\ USE_REFINECBF
    /\ VersionOf(heap[vf_table].cells[1]) = 1
    /\ cpc = "idle"
    /\ tpc = "idle"
    /\ cycles = MaxCycles

\* The nominal control held after the deliveries so far.
LatestNominal(delivered) ==
    IF delivered = None THEN <<U_MIN[1], 0>>
                        ELSE <<delivered[1].linear_x, delivered[1].angular_z>>

\* C9: the node holds the nominal control delivered last ([U_MIN[0], 0]
\* before any delivery), and that is the nominal control a cycle passes to
\* the corrector.
C9_NominalIsLastDelivered ==
    [][/\ nominal_policy' = LatestNominal(hist'.nom)
       /\ (tpc = "corrector" /\ tpc' = "solve")
             => cyc'.qp_nom = LatestNominal(hist.nom)]_vars

\* C9 witness: a later cycle passes a delivered nominal control to the
\* corrector.
C9_Witness ==
    /\ cycles = MaxCycles
    /\ tpc = "solve"
    /\ hist.nom # None
    /\ cyc.qp_nom = LatestNominal(hist.nom)

\* C10: the loop stops only on a shutdown: while main is in spin, no cycle
\* has ended the timer.
C10_LoopStopsOnlyOnShutdown == Spinning => tpc # "crashed"

\* The externally visible steps of a cycle, in the order of the code.
CycleSteps == <<"safety_value", "corrector", "control", "telemetry">>

IsCycleStep(e) == e \in {CycleSteps[i] : i \in DOMAIN CycleSteps}

\* The externally visible steps a cycle has taken so far.
StepsTaken == SelectSeq(cyc.events, IsCycleStep)

\* C11: the steps a cycle has taken are, at every moment, the first steps of
\* the sequence safety value, corrector, control, telemetry (each once, none
\* before the one it follows), and a cycle that ran to its end has taken all
\* four.
C11_CycleStepsInOrder ==
    /\ Len(StepsTaken) <= Len(CycleSteps)
    /\ StepsTaken = SubSeq(CycleSteps, 1, Len(StepsTaken))
    /\ (tpc = "idle" /\ cycles > 0) => StepsTaken = CycleSteps

\* C11 witness: the last cycle ran to its end through the fallback branch
\* and took the four steps in order.
C11_Witness ==
    /\ tpc = "idle"
    /\ cycles = MaxCycles
    /\ cyc.outcome = NoneArray
    /\ cyc.events = <<"safety_value", "corrector", "failure", "control",
                      "telemetry">>

\* The cycles that ran to their end.
CompletedCycles == IF tpc = "idle" THEN cycles ELSE cycles - 1

\* C12: one record is in the log per completed cycle, and when main has
\* ended, save_data has been called, whichever way spin ended.
C12_LogFlushedOnEveryShutdown ==
    /\ log.records = CompletedCycles
    /\ mpc = "done" => (Positions("save") # {} /\ log.saved # None)

\* C13: a notification whose load raises changes neither the table the node
\* holds nor the certificate of the corrector; from then until the next
\* notification loads a table, the node holds the table installed last, and
\* a lookup a cycle starts reads that table.
C13_FailedLoadKeepsTable ==
    [][/\ (~hist.raised /\ hist'.raised)
             => /\ vf_table' = vf_table
                /\ heap' = heap
                /\ asif_cbf' = asif_cbf
                /\ cbf' = cbf
       /\ hist'.raised
             => /\ VersionOf(heap'[vf_table'].cells[1]) = hist'.version
                /\ asif_cbf' = TabularCbfObject
       /\ (hist.raised /\ lk = NoLookup /\ lk' # NoLookup)
             => /\ lk'.ref = vf_table
                /\ LookupVersion' = hist.version]_vars

\* C13 witness: after a table was installed a load raised, and a cycle's
\* corrector reads the installed table.
C13_Witness ==
    /\ hist.raised
    /\ hist.version = 1
    /\ cycles = MaxCycles
    /\ tpc = "solve"
    /\ lk.ref = vf_table
    /\ LookupVersion = 1
    /\ cyc.sv_cells = CornersOf(1, cyc.sv_state)

\* The position of the first occurrence of a step in the running cycle's
\* events (0 when it has not happened).
FirstEvent(tag) ==
    IF \E i \in DOMAIN cyc.events : cyc.events[i] = tag
       THEN CHOOSE i \in DOMAIN cyc.events :
               /\ cyc.events[i] = tag
               /\ \A j \in 1..(i - 1) : cyc.events[j] # tag
       ELSE 0

\* C14: a cycle that publishes the safe-stop control after the corrector
\* returned no control has recorded a failure event before that publish,
\* and the event holds the state, the safety value and the nominal control
\* of that cycle (the ones the corrector was called with); a cycle whose
\* corrector returned a control records no failure event.
C14_FailureEventOfTheCycle ==
    /\ (cyc.cmd # None /\ cyc.outcome = NoneArray)
          => /\ cyc.failure # None
             /\ FirstEvent("failure") < FirstEvent("control")
             /\ cyc.failure[1].state = cyc.qp_state
             /\ cyc.failure[1].safety_value = cyc.sv_published
             /\ cyc.failure[1].nominal_policy = cyc.qp_nom
    /\ (cyc.outcome # NoneArray) => cyc.failure = None

\* C16: the table a cycle's corrector reads is the table the cycle read its
\* published safety value from, whatever cbf_sub_callback does meanwhile.
C16_OneTablePerCycle ==
    (cyc.sv_cells # <<>> /\ cyc.qp_cells # <<>>)
        => VersionOf(cyc.qp_cells[1]) = VersionOf(cyc.sv_cells[1])

\* C17: the nominal control in a cycle's telemetry record is the nominal
\* control the cycle passed to the corrector, whatever
\* nom_policy_sub_callback does meanwhile.
C17_RecordHoldsCorrectorNominal ==
    cyc.record # None
        => <<cyc.record[1].v_nom, cyc.record[1].omega_nom>> = cyc.qp_nom

\* C18: the record a cycle appends holds the control the cycle published
\* (the safe-stop control after a fallback, the corrector's output
\* otherwise) and the safety value the cycle published.
C18_RecordHoldsWhatWasPublished ==
    cyc.record # None
        => /\ Some(<<cyc.record[1].v, cyc.record[1].omega>>) = cyc.cmd
           /\ cyc.record[1].safety_value = cyc.sv_published
           /\ cyc.cmd = Some(IF cyc.outcome = NoneArray THEN FallbackControl
                                                        ELSE cyc.outcome)

\* C18 witness: a cycle that read the installed table published the
\* corrector's maximal control while another nominal control was held, and
\* logged both what it published.
C18_Witness ==
    /\ cyc.record # None
    /\ cyc.outcome = U_MAX
    /\ cyc.cmd = Some(U_MAX)
    /\ nominal_policy # U_MAX
    /\ cyc.sv_cells = CornersOf(1, cyc.sv_state)
    /\ cyc.record[1].v = U_MAX[1]
    /\ cyc.record[1].safety_value
          = Some(Interpolate(cyc.sv_cells, cyc.sv_state))

\* C19: in every state, with refinement enabled or not and after any number
\* of notifications, the certificate the corrector holds is the object
\* tabular_cbf whose table the safety-value lookup reads.
C19_CorrectorHoldsTabularCbf == asif_cbf = TabularCbfObject

\* C19 witness: with refinement enabled the last table the bound allows has
\* been installed, the callback has ended, and the table the corrector's
\* certificate refers to is the installed one.
C19_Witness ==
    /\ USE_REFINECBF
    /\ hist.version = MaxInstalls
    /\ cpc = "idle"
    /\ asif_cbf = TabularCbfObject
    /\ VersionOf(heap[TableRef(asif_cbf)].cells[1]) = MaxInstalls
=============================================================================
